---------------------------- MODULE Spec2Model ----------------------------
(***************************************************************************)
(* ics-event-api: the event normalisation engine (app/event_fetcher.py),   *)
(* the event model and its HTML sanitizer (app/event.py) and the HTTP      *)
(* handlers (app/routes.py).                                               *)
(*                                                                         *)
(* Text is a sequence of one-character strings.  An instant is a number of *)
(* ticks since a Monday 00:00:00 UTC; a day has TicksPerDay ticks.         *)
(***************************************************************************)
EXTENDS Integers, Sequences, FiniteSets, TLC

VARIABLES
    pc,      \* position of the caller: "idle", "done"; "ready", "once", "twice"
    call,    \* the operation under way and its inputs
    ret,     \* what _get_events_from_ics returned or raised
    resp,    \* the HTTP response of the handler
    passes   \* the results of the successive _clean_html passes over call.x

vars == <<pc, call, ret, resp, passes>>

(***************************************************************************)
(* Event._clean_html (app/event.py)                                        *)
(***************************************************************************)

\* Characters Python's \s and str.strip() treat as whitespace.
Whitespace == {" ", "\n", "\t", "\r"}

\* re.IGNORECASE on the letters the two line-break patterns use.
Lower(c) ==
    CASE c = "B" -> "b"
      [] c = "R" -> "r"
      [] c = "H" -> "h"
      [] OTHER -> c

\* First index >= j of s that holds no whitespace (Len(s) + 1 if none): \s*
RECURSIVE SkipSpace(_, _)
SkipSpace(s, j) ==
    IF j <= Len(s) /\ s[j] \in Whitespace THEN SkipSpace(s, j + 1) ELSE j

\* Length of the match of <xy\s*/?> (ignoring case) at index i of s, 0 if none.
BreakTagAt(s, i, x, y) ==
    IF i + 3 <= Len(s) /\ s[i] = "<" /\ Lower(s[i + 1]) = x /\ Lower(s[i + 2]) = y
    THEN LET j == SkipSpace(s, i + 3)
             k == IF j <= Len(s) /\ s[j] = "/" THEN j + 1 ELSE j
         IN  IF k <= Len(s) /\ s[k] = ">" THEN k - i + 1 ELSE 0
    ELSE 0

\* Length of the match of the literal lit at index i of s, 0 if none.
LiteralAt(s, i, lit) ==
    IF i + Len(lit) - 1 <= Len(s) /\ SubSeq(s, i, i + Len(lit) - 1) = lit
    THEN Len(lit)
    ELSE 0

\* First index >= j of s that holds ">" (Len(s) + 1 if none): [^>]+
RECURSIVE SkipToGt(_, _)
SkipToGt(s, j) ==
    IF j <= Len(s) /\ s[j] # ">" THEN SkipToGt(s, j + 1) ELSE j

\* Length of the match of <[^>]+> at index i of s, 0 if none.
AnyTagAt(s, i) ==
    IF i + 2 <= Len(s) /\ s[i] = "<" /\ s[i + 1] # ">"
    THEN LET k == SkipToGt(s, i + 1)
         IN  IF k <= Len(s) THEN k - i + 1 ELSE 0
    ELSE 0

LF == <<"&", "#", "1", "0", ";">>
CR == <<"&", "#", "1", "3", ";">>

\* The five patterns of _clean_html, by name.
MatchAt(pat, s, i) ==
    CASE pat = "br"  -> BreakTagAt(s, i, "b", "r")
      [] pat = "hr"  -> BreakTagAt(s, i, "h", "r")
      [] pat = "lf"  -> LiteralAt(s, i, LF)
      [] pat = "cr"  -> LiteralAt(s, i, CR)
      [] pat = "tag" -> AnyTagAt(s, i)

\* re.sub(pat, repl, s): the leftmost non-overlapping matches, left to right.
RECURSIVE ReSubFrom(_, _, _, _)
ReSubFrom(pat, repl, s, i) ==
    IF i > Len(s) THEN <<>>
    ELSE LET m == MatchAt(pat, s, i)
         IN  IF m > 0 THEN repl \o ReSubFrom(pat, repl, s, i + m)
             ELSE <<s[i]>> \o ReSubFrom(pat, repl, s, i + 1)

ReSub(pat, repl, s) == ReSubFrom(pat, repl, s, 1)

\* str.strip()
RECURSIVE LStrip(_)
LStrip(s) ==
    IF s # <<>> /\ Head(s) \in Whitespace THEN LStrip(Tail(s)) ELSE s

RECURSIVE RStrip(_)
RStrip(s) ==
    IF s # <<>> /\ s[Len(s)] \in Whitespace
    THEN RStrip(SubSeq(s, 1, Len(s) - 1))
    ELSE s

Strip(s) == RStrip(LStrip(s))

\* The entity pass of _clean_html: &#10; and &#13; become a newline.
ReplaceEntities(s) == ReSub("cr", <<"\n">>, ReSub("lf", <<"\n">>, s))

\* The tag pass of _clean_html: every remaining <...> is removed.
RemoveTags(s) == ReSub("tag", <<>>, s)

\* _clean_html with the strip() moved before the tag pass.
CleanHtmlStripFirst(input_string) ==
    LET s1 == ReSub("br", <<"\n">>, input_string)
        s2 == ReSub("hr", <<"\n">>, s1)
        s3 == ReplaceEntities(s2)
    IN  RemoveTags(Strip(s3))

\* Event._clean_html
CleanHtml(input_string) ==
    LET s1 == ReSub("br", <<"\n">>, input_string)
        s2 == ReSub("hr", <<"\n">>, s1)
        s3 == ReplaceEntities(s2)
        cleaned_string == RemoveTags(s3)
    IN  Strip(cleaned_string)

\* Event.__post_init__, the description field.
PostInitDescription(description) ==
    IF description # <<>> THEN CleanHtml(description) ELSE <<>>

(***************************************************************************)
(* Time, _ensure_datetime and the week start (app/event_fetcher.py)        *)
(***************************************************************************)

\* Granularity of the model's clock: ticks per day (tick 0 of a day is 00:00).
TicksPerDay == 2

DaysPerWeek == 7

Week == DaysPerWeek * TicksPerDay

\* A date or datetime value: a date (t is the day number), a naive datetime
\* (t is the wall clock), or an aware datetime (t is the wall clock at UTC
\* offset off); kind "missing" is Python's None.
Stamp(kind, t, off) == [kind |-> kind, t |-> t, off |-> off]

Missing == Stamp("missing", 0, 0)

\* _ensure_datetime: the UTC instant of a date or datetime.
EnsureDatetime(timestamp) ==
    CASE timestamp.kind = "date"  -> timestamp.t * TicksPerDay
      [] timestamp.kind = "naive" -> timestamp.t
      [] timestamp.kind = "aware" -> timestamp.t - timestamp.off

\* datetime.weekday(): Monday is 0.
Weekday(t) == (t \div TicksPerDay) % DaysPerWeek

\* week_start: current_time minus weekday() days, at 00:00:00.000000.
WeekStart(current_time) ==
    LET shifted == current_time - Weekday(current_time) * TicksPerDay
    IN  shifted - (shifted % TicksPerDay)

\* datetime.isoformat() of a UTC instant, as fixed-width fields: the day number
\* in two decimal digits, then the time of day.
IsoFormat(t) ==
    <<(t \div TicksPerDay) \div 10, (t \div TicksPerDay) % 10, t % TicksPerDay>>

\* Python's < on two strings, character by character.
RECURSIVE StrLess(_, _)
StrLess(a, b) ==
    IF b = <<>> THEN FALSE
    ELSE IF a = <<>> THEN TRUE
    ELSE IF Head(a) # Head(b) THEN Head(a) < Head(b)
    ELSE StrLess(Tail(a), Tail(b))

(***************************************************************************)
(* Recurrence rules: dateutil.rrule as the engine uses it                  *)
(***************************************************************************)

\* An RRULE property: freq, interval, until (-1: no UNTIL), and whether
\* dateutil can parse its text; freq "none" is a component without RRULE.
Rule(freq, interval, until, ok) ==
    [freq |-> freq, interval |-> interval, until |-> until, ok |-> ok]

NoRule == Rule("none", 0, -1, TRUE)

\* _rrule_to_text: the label, as its word and (for "EVERY n FREQ") its count.
RruleToText(rrule) ==
    IF rrule.freq \in {"DAILY", "WEEKLY", "MONTHLY", "YEARLY"}
    THEN IF rrule.interval = 1 THEN [word |-> rrule.freq, every |-> 0]
         ELSE IF rrule.interval = 2 /\ rrule.freq = "WEEKLY"
              THEN [word |-> "BI-WEEKLY", every |-> 0]
         ELSE IF rrule.interval = 2 /\ rrule.freq = "DAILY"
              THEN [word |-> "BI-DAILY", every |-> 0]
         ELSE [word |-> rrule.freq, every |-> rrule.interval]
    ELSE [word |-> "REPEATING", every |-> 0]

\* EventRecurrence.__post_init__: the label of the rule text, or the
\* placeholder "Invalid rrule: <text>" when dateutil cannot parse it.
RecurrencePostInit(rrule) ==
    IF rrule.ok THEN RruleToText(rrule) ELSE [word |-> "Invalid rrule", every |-> 0]

\* Ticks between two occurrences of a DAILY or WEEKLY rule.
Period(rrule) ==
    rrule.interval * (IF rrule.freq = "WEEKLY" THEN Week ELSE TicksPerDay)

\* rrule.after(week_start), inc=False: the first occurrence of the rule
\* anchored at dtstart that is strictly after week_start and not after UNTIL;
\* -1 is Python's None.
RruleAfter(rrule, dtstart, week_start) ==
    LET k == IF week_start < dtstart THEN 0
             ELSE ((week_start - dtstart) \div Period(rrule)) + 1
        occ == dtstart + k * Period(rrule)
    IN  IF rrule.until # -1 /\ occ > rrule.until THEN -1 ELSE occ

(***************************************************************************)
(* Event and EventRecurrence construction (app/event.py) as the engine     *)
(* calls them (app/event_fetcher.py)                                       *)
(***************************************************************************)

\* The parameters of the dataclass-generated Event.__init__, in order: the
\* fields declared without init=False.
EventInitParams ==
    <<"title_raw", "description", "start_datetime", "end_datetime", "recurrence">>

\* The positional arguments of the engine's Event(...) call.
EventCallArgs ==
    <<"title", "title_raw", "description", "start", "end", "is_all_day", "recurrence">>

\* The parameters of the dataclass-generated EventRecurrence.__init__ (text is
\* declared init=False).
RecurrenceInitParams == {"rrule"}

\* The keyword arguments of the engine's EventRecurrence(...) call.
RecurrenceCallKeywords == {"text", "rrule"}

\* Python binds a call: at most as many positional arguments as parameters.
BindsPositional(args, params) == Len(args) <= Len(params)

\* Python binds a call: every keyword names a parameter.
BindsKeywords(keywords, params) == keywords \subseteq params

(***************************************************************************)
(* _get_events_from_ics (app/event_fetcher.py)                             *)
(***************************************************************************)

Return(events) == [kind |-> "return", events |-> events, exc |-> "none"]

Raise(exc) == [kind |-> "raise", events |-> <<>>, exc |-> exc]

NoRecurrence == [text |-> [word |-> "none", every |-> 0], rrule |-> NoRule]

\* An Event as the engine appends it; comp is the index of its component in
\* the document (for the properties only).
Row(comp, start, end, recurrence) ==
    [comp |-> comp, start |-> IsoFormat(start), end |-> IsoFormat(end),
     recurrence |-> recurrence]

\* sorted(events, key=lambda x: x.start): a stable sort on the start strings.
RECURSIVE Insert(_, _)
Insert(sorted, e) ==
    IF sorted = <<>> THEN <<e>>
    ELSE IF StrLess(e.start, Head(sorted).start) THEN <<e>> \o sorted
    ELSE <<Head(sorted)>> \o Insert(Tail(sorted), e)

RECURSIVE SortedByStart(_)
SortedByStart(events) ==
    IF events = <<>> THEN <<>>
    ELSE Insert(SortedByStart(SubSeq(events, 1, Len(events) - 1)),
                events[Len(events)])

\* The loop over gcal.walk() from component i on, with the events appended so
\* far; the sort and the return follow the last component.
RECURSIVE Walk(_, _, _, _)
Walk(components, i, week_start, events) ==
    IF i > Len(components) THEN Return(SortedByStart(events))
    ELSE LET component == components[i] IN
    IF component.name # "VEVENT" THEN Walk(components, i + 1, week_start, events)
    ELSE IF component.dtstart = Missing THEN Raise("AttributeError")
    ELSE IF component.dtend = Missing THEN Raise("AttributeError")
    ELSE IF ~component.summary THEN Raise("AttributeError")
    ELSE IF ~BindsPositional(EventCallArgs, EventInitParams) THEN Raise("TypeError")
    ELSE LET dtstart == EnsureDatetime(component.dtstart)
             dtend == EnsureDatetime(component.dtend)
         IN
    IF component.rrule # NoRule
    THEN IF ~component.rrule.ok THEN Raise("ValueError")
         ELSE LET next_event_occurance ==
                      RruleAfter(component.rrule, dtstart, week_start)
              IN  IF next_event_occurance # -1
                  THEN IF ~BindsKeywords(RecurrenceCallKeywords, RecurrenceInitParams)
                       THEN Raise("TypeError")
                       ELSE Walk(components, i + 1, week_start,
                                 Append(events,
                                        Row(i, next_event_occurance,
                                            next_event_occurance + (dtend - dtstart),
                                            [text |-> RecurrencePostInit(component.rrule),
                                             rrule |-> component.rrule])))
                  ELSE Walk(components, i + 1, week_start, events)
    ELSE IF dtstart >= week_start
         THEN Walk(components, i + 1, week_start,
                   Append(events, Row(i, dtstart, dtend, NoRecurrence)))
         ELSE Walk(components, i + 1, week_start, events)

\* _get_events_from_ics: Calendar.from_ical raises on bytes that are no
\* calendar; otherwise the walk.
GetEventsFromIcs(ics_content, current_time) ==
    IF ~ics_content.valid THEN Raise(ics_content.exc)
    ELSE Walk(ics_content.components, 1,
              WeekStart(EnsureDatetime(current_time)), <<>>)

\* fetch_events: the reference time defaults to now; _fetch_ics_from_url
\* raises on a failed GET and otherwise hands the bytes to the engine.
FetchEvents(current_time, now, transport, ics_content) ==
    LET reference == IF current_time = Missing THEN Stamp("aware", now, 0)
                     ELSE current_time
    IN  IF transport # "ok" THEN Raise(transport)
        ELSE GetEventsFromIcs(ics_content, reference)

(***************************************************************************)
(* The HTTP handlers (app/routes.py)                                       *)
(***************************************************************************)

\* The exception classes that are ValueError or derive from it
\* (requests.exceptions.MissingSchema derives from ValueError).
IsValueError(exc) == exc \in {"ValueError", "MissingSchema"}

\* A JSON response: the status, "events" (null, or the list) and "error".
Response(status, events, error) ==
    [status |-> status, null |-> (status # 200), events |-> events, error |-> error]

\* The events of an error response (serialised as null).
Null == <<>>

\* The body of post_events' try block up to the call of fetch_events: the
\* datetime parsed from the request's current_time, or the exception raised.
\* A request value is [type, form, t, off]: JSON null, a string (empty, an ISO
\* datetime without offset, with a numeric offset, with a Z suffix, or no ISO
\* datetime at all) or a non-zero number.
ParseCurrentTime(value) ==
    CASE value.type = "null" -> [exc |-> "none", dt |-> Missing]
      [] value.type = "number" -> [exc |-> "TypeError", dt |-> Missing]
      [] value.type = "string" ->
           CASE value.form = "empty" -> [exc |-> "none", dt |-> Missing]
             [] value.form = "naive" ->
                  [exc |-> "none", dt |-> Stamp("naive", value.t, 0)]
             [] value.form = "offset" ->
                  [exc |-> "none", dt |-> Stamp("aware", value.t, value.off)]
             [] value.form = "zulu" ->
                  [exc |-> "none", dt |-> Stamp("aware", value.t, 0)]
             [] value.form = "garbage" -> [exc |-> "ValueError", dt |-> Missing]

\* The except clauses of post_events, in order.
PostExcept(exc) ==
    IF IsValueError(exc) THEN Response(400, Null, "Invalid date format")
    ELSE Response(500, Null, exc)

\* post_events
PostEventsResponse(value, now, transport, ics_content) ==
    LET parsed == ParseCurrentTime(value) IN
    IF parsed.exc # "none" THEN PostExcept(parsed.exc)
    ELSE LET events == FetchEvents(parsed.dt, now, transport, ics_content)
         IN  IF events.kind = "raise" THEN PostExcept(events.exc)
             ELSE Response(200, events.events, "none")

\* get_events
GetEventsResponse(now, transport, ics_content) ==
    LET events == FetchEvents(Missing, now, transport, ics_content)
    IN  IF events.kind = "raise" THEN Response(500, Null, events.exc)
        ELSE Response(200, events.events, "none")

(***************************************************************************)
(* Inputs                                                                  *)
(***************************************************************************)

\* Event starts fall in weeks 0 .. MaxWeek.
MaxWeek == 3

\* The week the reference times fall in.
RefWeek == 2

\* A document holds at most MaxComponents components.
MaxComponents == 2

\* A sanitizer input is the concatenation of at most MaxFrags fragments.
MaxFrags == 5

\* Monday 00:00 and Wednesday's second tick of each week.
EventTimes ==
    {w * Week + o : w \in 0..MaxWeek, o \in {0, 2 * TicksPerDay + 1}}

Durations == {1, TicksPerDay}

\* The DTSTART/DTEND values of a component that starts at t and lasts d: a
\* DATE pair when both fall on midnight, a UTC datetime pair otherwise.
StartStamp(t, d) ==
    IF t % TicksPerDay = 0 /\ d % TicksPerDay = 0
    THEN Stamp("date", t \div TicksPerDay, 0)
    ELSE Stamp("aware", t, 0)

EndStamp(t, d) ==
    IF t % TicksPerDay = 0 /\ d % TicksPerDay = 0
    THEN Stamp("date", (t + d) \div TicksPerDay, 0)
    ELSE Stamp("aware", t + d, 0)

Rules ==
    {NoRule,
     Rule("WEEKLY", 1, -1, TRUE),
     Rule("WEEKLY", 2, -1, TRUE),
     Rule("DAILY", 1, Week, TRUE),
     Rule("WEEKLY", 1, RefWeek * Week, TRUE),
     Rule("WEEKLY", 1, -1, FALSE)}

Component(name, dtstart, dtend, summary, rrule) ==
    [name |-> name, dtstart |-> dtstart, dtend |-> dtend, summary |-> summary,
     rrule |-> rrule]

\* VEVENTs with DTSTART, DTEND and SUMMARY.
WellFormed ==
    {Component("VEVENT", StartStamp(t, d), EndStamp(t, d), TRUE, r) :
        t \in EventTimes, d \in Durations, r \in Rules}

\* A VEVENT in the reference week without DTSTART, DTEND or SUMMARY, and a
\* component that is no VEVENT.
Others ==
    LET t == RefWeek * Week + 1 IN
    {Component("VEVENT", Missing, EndStamp(t, 1), TRUE, NoRule),
     Component("VEVENT", StartStamp(t, 1), Missing, TRUE, NoRule),
     Component("VEVENT", StartStamp(t, 1), EndStamp(t, 1), FALSE, NoRule),
     Component("VTIMEZONE", Missing, Missing, FALSE, NoRule)}

Components == WellFormed \cup Others

Calendar(components) == [valid |-> TRUE, exc |-> "none", components |-> components]

\* Bytes Calendar.from_ical rejects, with the exception it raises.
NotCalendar(exc) == [valid |-> FALSE, exc |-> exc, components |-> <<>>]

Documents ==
    {Calendar(cs) : cs \in UNION {[1..n -> Components] : n \in 0..MaxComponents}}
    \cup {NotCalendar("ValueError"), NotCalendar("IndexError")}

\* Reference times in RefWeek: Monday 00:00, Wednesday (as a date, and at its
\* second tick), the week's last tick, and Monday 00:00 at UTC offset +1 tick,
\* which is the last tick of the week before.
ReferenceTimes ==
    {Stamp("naive", RefWeek * Week, 0),
     Stamp("date", RefWeek * DaysPerWeek + 2, 0),
     Stamp("naive", RefWeek * Week + 2 * TicksPerDay + 1, 0),
     Stamp("aware", RefWeek * Week + Week - 1, 0),
     Stamp("aware", RefWeek * Week, 1)}

\* datetime.now(tz=UTC) at the moment of a request.
Nows == {RefWeek * Week, RefWeek * Week + 2 * TicksPerDay + 1}

\* The current_time values of a POST body.
RequestValue(type, form, t, off) == [type |-> type, form |-> form, t |-> t, off |-> off]

RequestValues ==
    {RequestValue("null", "none", 0, 0),
     RequestValue("number", "none", 0, 0),
     RequestValue("string", "empty", 0, 0),
     RequestValue("string", "garbage", 0, 0),
     RequestValue("string", "naive", RefWeek * Week + 2 * TicksPerDay + 1, 0),
     RequestValue("string", "offset", RefWeek * Week, 1),
     RequestValue("string", "zulu", RefWeek * Week, 0)}

\* The outcomes of requests.get(ICS_URL) and raise_for_status().
Transports == {"ok", "HTTPError", "ConnectionError", "MissingSchema"}

\* The pieces the sanitizer inputs are built from: the halves of the two
\* line-break entities, the brackets, the name of a line-break tag, a blank.
Fragments ==
    {<<"&", "#">>, <<"1", "0", ";">>, <<"1", "3", ";">>, <<"<">>, <<">">>,
     <<"b", "r">>, <<" ">>}

RECURSIVE Concat(_)
Concat(fs) == IF fs = <<>> THEN <<>> ELSE Head(fs) \o Concat(Tail(fs))

Texts == {Concat(fs) : fs \in UNION {[1..n -> Fragments] : n \in 0..MaxFrags}}

(***************************************************************************)
(* The engine and the handlers as a state machine                          *)
(***************************************************************************)

NoCall == [op |-> "none", ics |-> NotCalendar("none"), current_time |-> Missing,
           value |-> RequestValue("null", "none", 0, 0), now |-> 0,
           transport |-> "ok", x |-> <<>>]

NoReturn == [kind |-> "none", events |-> <<>>, exc |-> "none"]

NoResponse == [status |-> 0, null |-> TRUE, events |-> <<>>, error |-> "none"]

Init ==
    /\ pc = "idle"
    /\ call = NoCall
    /\ ret = NoReturn
    /\ resp = NoResponse
    /\ passes = <<>>

\* A direct call of _get_events_from_ics.
CallGetEventsFromIcs ==
    /\ pc = "idle"
    /\ \E ics \in Documents, current_time \in ReferenceTimes :
          /\ call' = [NoCall EXCEPT !.op = "_get_events_from_ics", !.ics = ics,
                                    !.current_time = current_time]
          /\ ret' = GetEventsFromIcs(ics, current_time)
    /\ pc' = "done"
    /\ UNCHANGED <<resp, passes>>

\* The document a fetch yields: none when the transport fails.
Fetched(transport) == IF transport = "ok" THEN Documents ELSE {NotCalendar("none")}

\* GET /api/events
GetEvents ==
    /\ pc = "idle"
    /\ \E now \in Nows, transport \in Transports :
       \E ics \in Fetched(transport) :
          /\ call' = [NoCall EXCEPT !.op = "get_events", !.ics = ics, !.now = now,
                                    !.transport = transport]
          /\ ret' = FetchEvents(Missing, now, transport, ics)
          /\ resp' = GetEventsResponse(now, transport, ics)
    /\ pc' = "done"
    /\ UNCHANGED passes

\* POST /api/events
PostEvents ==
    /\ pc = "idle"
    /\ \E value \in RequestValues, now \in Nows, transport \in Transports :
       \E ics \in Fetched(transport) :
          /\ call' = [NoCall EXCEPT !.op = "post_events", !.ics = ics, !.now = now,
                                    !.value = value, !.transport = transport]
          /\ ret' = IF ParseCurrentTime(value).exc # "none" THEN NoReturn
                    ELSE FetchEvents(ParseCurrentTime(value).dt, now, transport, ics)
          /\ resp' = PostEventsResponse(value, now, transport, ics)
    /\ pc' = "done"
    /\ UNCHANGED passes

\* The caller takes the result; the next call or request may start.
Finish ==
    /\ pc = "done"
    /\ pc' = "idle"
    /\ call' = NoCall
    /\ ret' = NoReturn
    /\ resp' = NoResponse
    /\ UNCHANGED passes

Next == CallGetEventsFromIcs \/ GetEvents \/ PostEvents \/ Finish

Spec == Init /\ [][Next]_vars

(***************************************************************************)
(* The sanitizer applied to a text, and again to its own result            *)
(***************************************************************************)

InitClean ==
    /\ pc = "ready"
    /\ \E x \in Texts : call = [NoCall EXCEPT !.op = "_clean_html", !.x = x]
    /\ ret = NoReturn
    /\ resp = NoResponse
    /\ passes = <<>>

CleanOnce ==
    /\ pc = "ready"
    /\ passes' = <<CleanHtml(call.x)>>
    /\ pc' = "once"
    /\ UNCHANGED <<call, ret, resp>>

CleanAgain ==
    /\ pc = "once"
    /\ passes' = Append(passes, CleanHtml(passes[1]))
    /\ pc' = "twice"
    /\ UNCHANGED <<call, ret, resp>>

NextClean == CleanOnce \/ CleanAgain

SpecClean == InitClean /\ [][NextClean]_vars

(***************************************************************************)
(* Properties                                                              *)
(***************************************************************************)

\* A finished direct call of _get_events_from_ics on a parsed calendar.
EngineCalled ==
    /\ pc = "done"
    /\ call.op = "_get_events_from_ics"
    /\ call.ics.valid

Comps == call.ics.components

RefTime == EnsureDatetime(call.current_time)

\* Component i is a VEVENT with DTSTART, DTEND, SUMMARY and, if it has an
\* RRULE, one dateutil parses.
Sound(i) == Comps[i] \in WellFormed /\ Comps[i].rrule.ok

AllSound == \A i \in 1..Len(Comps) : Sound(i)

Start(i) == EnsureDatetime(Comps[i].dtstart)

End(i) == EnsureDatetime(Comps[i].dtend)

\* The rows of the returned list that come from component i.
RowsOf(i) == {n \in 1..Len(ret.events) : ret.events[n].comp = i}

\* IsoFormat read back.
IsoParse(str) == (str[1] * 10 + str[2]) * TicksPerDay + str[3]

\* Component i is the non-recurring event and j the weekly one of the
\* end-to-end scenario, the reference time being a Wednesday.
Scenario(i, j) ==
    /\ Len(Comps) = 2 /\ i # j /\ AllSound
    /\ Weekday(RefTime) = 2
    /\ Comps[i].rrule = NoRule
    /\ Start(i) < WeekStart(RefTime)
    /\ Comps[j].rrule = Rule("WEEKLY", 1, -1, TRUE)
    /\ Start(j) = RefTime - 2 * Week

\* C1: in the end-to-end scenario (one past non-recurring VEVENT, one weekly
\* VEVENT anchored two weeks before a Wednesday reference time) the call
\* returns exactly one event, the weekly one at this week's occurrence,
\* labelled "WEEKLY".
C1_EndToEnd ==
    \A i, j \in 1..2 :
        EngineCalled /\ Scenario(i, j) =>
            /\ ret.kind = "return"
            /\ Len(ret.events) = 1
            /\ ret.events[1].comp = j
            /\ ret.events[1].start = IsoFormat(RefTime)
            /\ ret.events[1].recurrence.text = [word |-> "WEEKLY", every |-> 0]

\* C2: a VEVENT without RRULE is in the output if and only if its start is on
\* or after week_start.
C2_WeekFilter ==
    EngineCalled /\ AllSound =>
        \A i \in 1..Len(Comps) :
            Comps[i].rrule = NoRule =>
                (RowsOf(i) # {} <=> Start(i) >= WeekStart(RefTime))

\* C4: a VEVENT whose rule has no occurrence after week_start contributes no
\* row, and the call still returns.
C4_DroppedRecurrence ==
    EngineCalled /\ AllSound =>
        \A i \in 1..Len(Comps) :
            (/\ Comps[i].rrule # NoRule
             /\ RruleAfter(Comps[i].rrule, Start(i), WeekStart(RefTime)) = -1)
            => ret.kind = "return" /\ RowsOf(i) = {}

\* C6: a VEVENT whose RRULE text cannot be parsed is returned with its
\* original start and end and the placeholder as its recurrence text.
C6_BadRuleDegrades ==
    EngineCalled =>
        \A i \in 1..Len(Comps) :
            (/\ Comps[i] \in WellFormed /\ ~Comps[i].rrule.ok
             /\ \A k \in 1..Len(Comps) : k # i => Sound(k))
            => /\ ret.kind = "return"
               /\ \E n \in RowsOf(i) :
                     /\ ret.events[n].start = IsoFormat(Start(i))
                     /\ ret.events[n].end = IsoFormat(End(i))
                     /\ ret.events[n].recurrence.text.word = "Invalid rrule"

\* C7: a VEVENT without DTSTART or DTEND does not make the call raise; the
\* other VEVENTs that pass the week filter are returned.
C7_MalformedIsolated ==
    EngineCalled =>
        \A i \in 1..Len(Comps) :
            (/\ Comps[i].name = "VEVENT"
             /\ (Comps[i].dtstart = Missing \/ Comps[i].dtend = Missing)
             /\ \A k \in 1..Len(Comps) : k # i => Sound(k))
            => /\ ret.kind = "return"
               /\ \A k \in 1..Len(Comps) :
                     (k # i /\ Comps[k].rrule = NoRule
                      /\ Start(k) >= WeekStart(RefTime)) => RowsOf(k) # {}

\* No call of the engine returns a row: the first VEVENT that has DTSTART,
\* DTEND and SUMMARY makes Event(...) raise, so every list returned is empty.
EngineReturnsNoRow == ret.events = <<>>

\* A finished POST /api/events whose current_time is JSON null or a string.
Posted ==
    /\ pc = "done"
    /\ call.op = "post_events"
    /\ call.value.type \in {"null", "string"}

\* The request's current_time is a string that is no ISO-8601 instant.
InvalidCurrentTime == call.value.type = "string" /\ call.value.form = "garbage"

\* C8: POST /api/events answers 400 exactly when current_time is no valid
\* ISO-8601 instant, 500 with null events on every other failure, and 200
\* with the list on success.
C8_StatusMapping ==
    Posted =>
        /\ resp.status = 400 <=> InvalidCurrentTime
        /\ (~InvalidCurrentTime /\ ret.kind = "raise") =>
               resp.status = 500 /\ resp.null /\ resp.error # "none"
        /\ (~InvalidCurrentTime /\ ret.kind = "return") =>
               resp.status = 200 /\ ~resp.null /\ resp.events = ret.events

\* The text holds "&#10;" or "&#13;".
HasEntity(s) ==
    \E i \in 1..Len(s) : LiteralAt(s, i, LF) > 0 \/ LiteralAt(s, i, CR) > 0

\* C9 (as stated): a second _clean_html pass never changes the result of the
\* first.
C9_Idempotent == pc = "twice" => passes[2] = passes[1]

\* C9 (amended): a second _clean_html pass leaves the result of the first
\* unchanged whenever that result holds no "&#10;" or "&#13;".
C9_IdempotentWithoutEntity ==
    (pc = "twice" /\ ~HasEntity(passes[1])) => passes[2] = passes[1]

\* Both passes ran over a text from which the first removed a tag, leaving
\* text without a line-break entity.
C9_Witness ==
    /\ pc = "twice"
    /\ RemoveTags(call.x) # call.x
    /\ passes[1] # <<>>
    /\ ~HasEntity(passes[1])

=============================================================================
